---- MODULE Spec2Model ----
(***************************************************************************)
(* A model of the Notepad++ PythonScript auto-format plugin:               *)
(*   src/src/npplib/insert.py     on_CHARADDED_insert, _on_CHARADDED_wrap, *)
(*                                _on_RETURN_insert_comment, _is_comment   *)
(*   src/src/npplib/common.py     get_lines                                *)
(*   src/src/scripts/auto_insert.py   main (the bind/unbind toggle)        *)
(*                                                                         *)
(* A Python str is a sequence of one-character strings.  The host editor   *)
(* (Scintilla behind the Npp module) is the buffer `text` (a sequence of   *)
(* lines without their terminators, the document joining them by "\r\n")   *)
(* and the caret.  The user types a key (HostType), the host queues the    *)
(* CHARADDED notifications of that key, and Notify delivers one of them to *)
(* on_CHARADDED_insert when the callback is registered.                    *)
(***************************************************************************)
EXTENDS Integers, Sequences, FiniteSets, TLC

VARIABLES
    text,        \* the buffer: Seq of lines, each a Seq of characters
    caret,       \* [line |-> 0-based line, col |-> 0-based column]
    filename,    \* notepad.getCurrentFilename(), a Seq of characters
    limit,       \* the column limit held by the registry entries
    pending,     \* CHARADDED notifications queued by the host, Seq of key codes
    typed,       \* has the user typed the key of this behaviour
    bound,       \* the script's global `bound`: "undefined", "True", "False"
    registered,  \* how many times the editor holds the callback
    runs,        \* invocations of main() so far
    ev           \* what the last step did (history of one handler run)

vars == <<text, caret, filename, limit, pending, typed, bound, registered, runs, ev>>

(***************************************************************************)
(* Bounds of the model.                                                    *)
(***************************************************************************)
MaxWords == 3        \* tokens on the edited line of an opened document
MaxRuns == 3         \* invocations of the registration script
MaxLimit == 5        \* the registry's column limit, scaled down from 72

(***************************************************************************)
(* Python str primitives.                                                  *)
(***************************************************************************)
EOL == <<"\r", "\n">>

IsSpace(c) == c \in {" ", "\t", "\r", "\n"}

RECURSIVE lstrip(_)
lstrip(s) == IF s # <<>> /\ IsSpace(Head(s)) THEN lstrip(Tail(s)) ELSE s

RECURSIVE rstrip(_)
rstrip(s) ==
    IF s # <<>> /\ IsSpace(s[Len(s)]) THEN rstrip(SubSeq(s, 1, Len(s) - 1)) ELSE s

strip(s) == lstrip(rstrip(s))

startswith(s, p) == Len(p) <= Len(s) /\ SubSeq(s, 1, Len(p)) = p

endswith(s, p) == Len(p) <= Len(s) /\ SubSeq(s, Len(s) - Len(p) + 1, Len(s)) = p

\* s.index(sub): the 0-based offset of the first occurrence, -1 for ValueError
index(s, sub) ==
    LET hits == {i \in 0..(Len(s) - Len(sub)) : SubSeq(s, i + 1, i + Len(sub)) = sub}
    IN  IF hits = {} THEN -1 ELSE CHOOSE i \in hits : \A j \in hits : i <= j

\* the first whitespace-delimited word of a string that starts with none
RECURSIVE FirstWord(_)
FirstWord(s) ==
    IF s = <<>> \/ IsSpace(Head(s)) THEN <<>> ELSE <<Head(s)>> \o FirstWord(Tail(s))

\* s.split(): the maximal runs of non-whitespace characters, in order
RECURSIVE split(_)
split(s) ==
    LET t == lstrip(s)
    IN  IF t = <<>> THEN <<>>
        ELSE LET w == FirstWord(t)
             IN  <<w>> \o split(SubSeq(t, Len(w) + 1, Len(t)))

\* "".join(parts)
RECURSIVE join(_)
join(parts) == IF parts = <<>> THEN <<>> ELSE Head(parts) \o join(Tail(parts))

\* str.lower() on the letters the file names use
LowerChar(c) ==
    CASE c = "A" -> "a" [] c = "P" -> "p" [] c = "Y" -> "y" [] OTHER -> c

lower(s) == [i \in 1..Len(s) |-> LowerChar(s[i])]

RECURSIVE LeadingDots(_)
LeadingDots(s) == IF s # <<>> /\ Head(s) = "." THEN 1 + LeadingDots(Tail(s)) ELSE 0

\* os.path.splitext(name)[1]: from the last dot on, leading dots not counting
splitext(name) ==
    LET lead == LeadingDots(name)
        dots == {i \in (lead + 2)..Len(name) : name[i] = "."}
    IN  IF dots = {} THEN <<>>
        ELSE SubSeq(name, CHOOSE i \in dots : \A j \in dots : j <= i, Len(name))

(***************************************************************************)
(* The language registry, _lang_map.  Both limits of the source are 72;    *)
(* the model holds the scaled limit of the state in their place.           *)
(***************************************************************************)
ExtPy == <<".", "p", "y">>
ExtC == <<".", "c">>

\* _lang_map with a comment limit two columns under the docstring limit
_lang_map_NarrowComments(lim) ==
    (ExtPy :> [file_extension |-> ExtPy, comment_str |-> <<"#">>,
               style_comment |-> 1, comment_limit |-> lim - 2,
               style_docstring |-> 7, docstring_limit |-> lim,
               docstring_str |-> <<>>])
    @@ (ExtC :> [file_extension |-> ExtC, comment_str |-> <<"/", "/">>,
                 style_comment |-> 2, comment_limit |-> lim - 2])

_lang_map(lim) ==
    (ExtPy :> [file_extension |-> ExtPy, comment_str |-> <<"#">>,
               style_comment |-> 1, comment_limit |-> lim,
               style_docstring |-> 7, docstring_limit |-> lim,
               docstring_str |-> <<>>])
    @@ (ExtC :> [file_extension |-> ExtC, comment_str |-> <<"/", "/">>,
                 style_comment |-> 2, comment_limit |-> lim])

\* FileExtension without .lower()
FileExtension_CaseKept(name) == splitext(name)

\* the file_extension of on_CHARADDED_insert
FileExtension(name) == lower(splitext(name))

(***************************************************************************)
(* The host editor.  An editor value is [text, caret, ops, err]: ops is    *)
(* the sequence of mutating host calls made so far by the running handler, *)
(* err the exception that ended it ("" for none).                          *)
(***************************************************************************)
\* editor.getLine(n): the line with its terminator; the last line has none,
\* and a line that does not exist reads as the empty string
getLine(txt, n) ==
    IF n < 0 \/ n >= Len(txt) THEN <<>>
    ELSE IF n = Len(txt) - 1 THEN txt[n + 1]
    ELSE txt[n + 1] \o EOL

\* pos == editor.getLineEndPosition(editor.lineFromPosition(pos))
AtLineEnd(ed) == ed.caret.col = Len(ed.text[ed.caret.line + 1])

\* the lines of a text holding "\r\n" terminators
RECURSIVE SplitLines(_)
SplitLines(s) ==
    LET k == index(s, EOL)
    IN  IF k = -1 THEN <<s>>
        ELSE <<SubSeq(s, 1, k)>> \o SplitLines(SubSeq(s, k + 3, Len(s)))

\* editor.replaceLine(n, s): the line's characters, terminator excluded, are
\* replaced; a caret inside the replaced range lands on its start
replaceLine(ed, n, s) ==
    LET parts == SplitLines(s)
        before == SubSeq(ed.text, 1, n)
        after == SubSeq(ed.text, n + 2, Len(ed.text))
    IN  [ed EXCEPT !.text = before \o parts \o after,
                   !.caret = IF ed.caret.line = n THEN [line |-> n, col |-> 0]
                             ELSE IF ed.caret.line > n
                                  THEN [line |-> ed.caret.line + Len(parts) - 1,
                                        col |-> ed.caret.col]
                                  ELSE ed.caret,
                   !.ops = @ \o <<"replaceLine">>]

\* the buffer and caret after s is inserted at the caret
InsertAtCaret(txt, car, s) ==
    LET cur == txt[car.line + 1]
        head == SubSeq(cur, 1, car.col)
        tail == SubSeq(cur, car.col + 1, Len(cur))
        parts == SplitLines(s)
        n == Len(parts)
        made == IF n = 1 THEN <<head \o parts[1] \o tail>>
                ELSE <<head \o parts[1]>> \o SubSeq(parts, 2, n - 1)
                     \o <<parts[n] \o tail>>
    IN  [text |-> SubSeq(txt, 1, car.line) \o made
                  \o SubSeq(txt, car.line + 2, Len(txt)),
         caret |-> [line |-> car.line + n - 1,
                    col |-> IF n = 1 THEN car.col + Len(s) ELSE Len(parts[n])]]

\* editor.addText(s)
addText(ed, s) ==
    LET r == InsertAtCaret(ed.text, ed.caret, s)
    IN  [ed EXCEPT !.text = r.text, !.caret = r.caret, !.ops = @ \o <<"addText">>]

\* editor.lineEnd()
lineEnd(ed) ==
    [ed EXCEPT !.caret.col = Len(ed.text[ed.caret.line + 1]),
               !.ops = @ \o <<"lineEnd">>]

\* editor.charLeft(): one character back, over a line terminator as one step
charLeft(ed) ==
    [ed EXCEPT !.caret = IF ed.caret.col > 0
                           THEN [line |-> ed.caret.line, col |-> ed.caret.col - 1]
                         ELSE IF ed.caret.line > 0
                           THEN [line |-> ed.caret.line - 1,
                                 col |-> Len(ed.text[ed.caret.line])]
                         ELSE ed.caret,
               !.ops = @ \o <<"charLeft">>]

Raise(ed, exc) == [ed EXCEPT !.err = exc]

(***************************************************************************)
(* insert.py: the classifier and the paragraph re-wrapper.                 *)
(***************************************************************************)
_is_comment(comment_str, line) == startswith(lstrip(line), comment_str)

\* next(it, None) past the last word
None == <<"None">>

\* line 93: the wrap goes on only at end of line or on a space
WrapTrigger(ed, ch) == AtLineEnd(ed) \/ ch = 32

\* TooLong measuring the line with its trailing whitespace
TooLong_Unstripped(line, line_len_limit) == ~(Len(line) <= line_len_limit)

\* line 117: the line, trailing whitespace stripped, is longer than the limit
TooLong(line, line_len_limit) == ~(Len(rstrip(line)) <= line_len_limit)

\* line 122: line[:line.index(words[0][0])]
WhiteSpace(line, words) == SubSeq(line, 1, index(line, <<words[1][1]>>))

\* lines 129-130: a first word equal to str_start is deleted
DropMarker(words, str_start) ==
    IF words # <<>> /\ words[1] = str_start THEN Tail(words) ELSE words

\* lines 137-138: str_start is cut off the front of the first word
CutMarker(words, str_start) ==
    IF str_start # <<>> /\ startswith(words[1], str_start)
    THEN <<SubSeq(words[1], Len(str_start) + 1, Len(words[1]))>> \o Tail(words)
    ELSE words

\* lines 141-144
LineStart(white_space, str_start) ==
    IF str_start # <<>> THEN join(<<white_space, str_start, <<" ">> >>)
    ELSE white_space

\* line 154: the length the line would have with " " + word appended
Appended(line_len, word) == line_len + Len(word) + 1

\* line 157
Overflows(line_len, line_len_limit) == line_len > line_len_limit

\* OnlyWord testing the count after the increment of line 155
OnlyWord_Counted(word_count) == word_count = 2

\* line 158
OnlyWord(word_count) == word_count = 1

\* lines 152-168: the loop over the words after the first; i is the place
\* of the iterator `it` in words
RECURSIVE WrapLoop(_, _, _, _, _, _, _)
WrapLoop(words, i, new_words, line_len, word_count, line_start, line_len_limit) ==
    IF i > Len(words) THEN new_words
    ELSE
      LET word == words[i]
          len1 == Appended(line_len, word)
          count1 == word_count + 1
      IN  IF Overflows(len1, line_len_limit)
          THEN IF OnlyWord(count1)
               THEN WrapLoop(words, i + 2,
                        new_words \o <<word, EOL, line_start,
                                       IF i + 1 <= Len(words) THEN words[i + 1]
                                       ELSE None>>,
                        Len(line_start) + Len(word), 1, line_start, line_len_limit)
               ELSE WrapLoop(words, i + 1,
                        new_words \o <<EOL, line_start, word>>,
                        Len(line_start) + Len(word), 1, line_start, line_len_limit)
          ELSE WrapLoop(words, i + 1, new_words \o << <<" ">>, word>>,
                        len1, count1, line_start, line_len_limit)

\* lines 147-168: new_words
NewWords(words, line_start, line_len_limit) ==
    WrapLoop(words, 2, <<line_start, words[1]>>,
             Len(line_start) + Len(words[1]), 1, line_start, line_len_limit)

\* lines 178-182: the caret goes before closing docstring quotes
DocstringCaret(ed, type, new_words) ==
    IF type = "docstring"
       /\ endswith(new_words[Len(new_words)], <<"\"", "\"", "\"">>)
    THEN charLeft(charLeft(charLeft(ed)))
    ELSE ed

\* lines 170-182: the writes
WriteBlock(ed, line_num, type, new_words) ==
    LET e1 == replaceLine(ed, line_num, <<>>)
    IN  IF \E k \in 1..Len(new_words) : new_words[k] = None
        THEN Raise(e1, "TypeError")
        ELSE DocstringCaret(lineEnd(addText(e1, join(new_words))), type, new_words)

\* lines 120-182, once the line is known to be too long
Rewrap(ed, line_num, line, type, str_start, line_len_limit) ==
    LET words0 == split(line)
    IN  IF words0 = <<>> THEN Raise(ed, "IndexError")
        ELSE
          LET white_space == WhiteSpace(line, words0)
              words1 == DropMarker(words0, str_start)
          IN  IF words1 = <<>> \/ Len(words1) <= 1 THEN ed
              ELSE
                LET words == CutMarker(words1, str_start)
                    line_start == LineStart(white_space, str_start)
                IN  WriteBlock(ed, line_num, type,
                               NewWords(words, line_start, line_len_limit))

\* lines 96-114: does the classifier of the requested type accept the line
Classified(l_map, type, style, line) ==
    CASE type = "docstring" -> style = l_map.style_docstring
      [] type = "comment" -> _is_comment(l_map.comment_str, line)
      [] OTHER -> FALSE

_on_CHARADDED_wrap(ed, l_map, ch, type, style) ==
    LET line_num == ed.caret.line
        line == getLine(ed.text, line_num)
    IN  IF ~WrapTrigger(ed, ch) THEN ed
        ELSE IF ~Classified(l_map, type, style, line) THEN ed
        ELSE
          LET line_len_limit == IF type = "docstring" THEN l_map.docstring_limit
                                ELSE l_map.comment_limit
              str_start == IF type = "docstring" THEN l_map.docstring_str
                           ELSE l_map.comment_str
          IN  IF ~TooLong(line, line_len_limit) THEN ed
              ELSE Rewrap(ed, line_num, line, type, str_start, line_len_limit)

(***************************************************************************)
(* insert.py and common.py: the continuation inserter.                     *)
(***************************************************************************)
\* common.get_lines
get_lines(txt, line_nums) == [k \in 1..Len(line_nums) |-> getLine(txt, line_nums[k])]

\* Continues asking for a comment two lines above in every case
Continues_BothAbove(comment_str, pp_line, p_line, trailing_string) ==
    _is_comment(comment_str, pp_line) /\ _is_comment(comment_str, p_line)

\* lines 200-201, negated: the comment goes on to the new line
Continues(comment_str, pp_line, p_line, trailing_string) ==
    ~(    ~(_is_comment(comment_str, pp_line) \/ trailing_string # <<>>)
       \/ ~_is_comment(comment_str, p_line))

\* ContinuedLine without the indentation of the line above
ContinuedLine_NoIndent(comment_str, p_line, trailing_string) ==
    join(<<comment_str, <<" ">>, trailing_string>>)

\* lines 207-210
ContinuedLine(comment_str, p_line, trailing_string) ==
    join(<<SubSeq(p_line, 1, index(p_line, comment_str)), comment_str, <<" ">>,
           trailing_string>>)

_on_RETURN_insert_comment(ed, l_map) ==
    LET line_num == ed.caret.line
        got == get_lines(ed.text, <<line_num - 1, line_num - 2>>)
        p_line == got[1]
        pp_line == got[2]
        trailing_string == strip(getLine(ed.text, line_num))
    IN  IF ~Continues(l_map.comment_str, pp_line, p_line, trailing_string) THEN ed
        ELSE lineEnd(replaceLine(ed, line_num,
                 ContinuedLine(l_map.comment_str, p_line, trailing_string)))

(***************************************************************************)
(* insert.py: the event dispatcher.  Its result is the sequence of handler *)
(* attempts it made, each with the buffer and caret before and after, the  *)
(* mutating host calls of the attempt and the exception that ended it.     *)
(***************************************************************************)
Fresh(txt, car) == [text |-> txt, caret |-> car, ops |-> <<>>, err |-> ""]

Attempt(fn, type, style, before, after) ==
    [fn |-> fn, type |-> type, style |-> style,
     text0 |-> before.text, caret0 |-> before.caret,
     text1 |-> after.text, caret1 |-> after.caret,
     ops |-> after.ops, err |-> after.err]

\* the style tag the attempt read with editor.getStyleAt (line 99), -1 when
\* it read none
StyleRead(ed, ch, type, style) ==
    IF type = "docstring" /\ WrapTrigger(ed, ch) THEN style ELSE -1

WrapAttempt(ed, l_map, ch, type, style) ==
    Attempt("wrap", type, StyleRead(ed, ch, type, style), ed,
            _on_CHARADDED_wrap(ed, l_map, ch, type, style))

\* lines 67-71: the wrap attempts of a file type, in order
WrapTypes(file_extension) ==
    IF file_extension = ExtPy THEN <<"docstring", "comment">>
    ELSE IF file_extension = ExtC THEN <<"comment">>
    ELSE <<>>

\* the attempts of WrapTypes from the k-th on; an exception ends the handler
RECURSIVE WrapAttempts(_, _, _, _, _, _)
WrapAttempts(ed, l_map, ch, types, k, style) ==
    IF k > Len(types) THEN <<>>
    ELSE LET a == WrapAttempt(ed, l_map, ch, types[k], style)
         IN  IF a.err # "" THEN <<a>>
             ELSE <<a>> \o WrapAttempts(Fresh(a.text1, a.caret1), l_map, ch,
                                         types, k + 1, style)

\* lines 58-59
IsSupported(name, lim) == FileExtension(name) \in DOMAIN _lang_map(lim)

\* line 63
IsReturn(ch) == ch = 10

on_CHARADDED_insert(txt, car, name, lim, ch, style) ==
    LET file_extension == FileExtension(name)
        ed == Fresh(txt, car)
    IN  IF ~IsSupported(name, lim) THEN <<>>
        ELSE IF IsReturn(ch)
        THEN <<Attempt("return", "comment", -1, ed,
                       _on_RETURN_insert_comment(ed, _lang_map(lim)[file_extension]))>>
        ELSE WrapAttempts(ed, _lang_map(lim)[file_extension], ch,
                          WrapTypes(file_extension), 1, style)

(***************************************************************************)
(* auto_insert.py: main, the toggle.  Under Python 2, which PythonScript   *)
(* embeds, the late `global bound` makes every use of bound in main the    *)
(* module's global: the first run finds it undefined and sets it True.     *)
(***************************************************************************)
\* Toggled setting the flag on every run
Toggled_AlwaysOn(b) == "True"

\* lines 21-25
Toggled(b) ==
    IF b = "undefined" THEN "True" ELSE IF b = "True" THEN "False" ELSE "True"

(***************************************************************************)
(* The documents a behaviour starts from: a line of up to MaxWords tokens  *)
(* around the file's comment marker, indented or not, under no line, a     *)
(* comment line or a code line; the caret at or just before its end.  A    *)
(* handler keeps nothing from one event to the next, so a behaviour types  *)
(* one key.                                                                *)
(***************************************************************************)
Quotes == <<"\"", "\"", "\"">>

FileNames ==
    { <<"a", ".", "p", "y">>, <<"A", ".", "P", "Y">>, <<"b", ".", "c">>,
      <<"n", ".", "m", "d">>, <<"R", "E", "A", "D", "M", "E">> }

Limits == {1, MaxLimit}

MarkerOf(name) ==
    IF FileExtension(name) = ExtC THEN <<"/", "/">> ELSE <<"#">>

Tokens(m) == {m, m \o m, m \o <<"a">>, <<"a">>, <<"a">> \o Quotes}

RECURSIVE TokenLines(_, _)
TokenLines(m, n) ==
    IF n = 0 THEN {<<>>}
    ELSE LET shorter == TokenLines(m, n - 1)
         IN  shorter \cup
             {IF l = <<>> THEN t ELSE l \o <<" ">> \o t :
                 <<l, t>> \in {x \in shorter \X Tokens(m) :
                                  x[1] = <<>> \/ Len(split(x[1])) = n - 1}}

Indents == {<<>>, <<" ">>}

EditedLines(m, n) == {i \o l : <<i, l>> \in Indents \X TokenLines(m, n)}

LinesAbove(m) == {<<>>, <<m \o <<" ", "a">> >>, << <<"a">> >>}

CaretCols(line) == {c \in {Len(line) - 1, Len(line)} : c >= 0}

InitDocs(n, b, reg, r) ==
    /\ filename \in FileNames
    /\ limit \in Limits
    /\ \E above \in LinesAbove(MarkerOf(filename)),
          line \in EditedLines(MarkerOf(filename), n) :
          /\ text = above \o <<line>>
          /\ \E c \in CaretCols(line) : caret = [line |-> Len(above), col |-> c]
    /\ pending = <<>>
    /\ typed = FALSE
    /\ bound = b
    /\ registered = reg
    /\ runs = r
    /\ ev = [kind |-> "init"]

\* the script has been run once: the callback is bound
Init == InitDocs(MaxWords, "True", 1, 1)

\* the script has not been run yet; the documents hold one token at most
InitScript == InitDocs(1, "undefined", 0, 0)

(***************************************************************************)
(* The steps.                                                              *)
(***************************************************************************)
\* the keys the user types: Enter, space, a letter
Keys == {10, 32, 97}

KeyText(k) == IF k = 10 THEN EOL ELSE IF k = 32 THEN <<" ">> ELSE <<"a">>

\* the CHARADDED notifications of a key: one for each character inserted
KeyCodes(k) == IF k = 10 THEN <<13, 10>> ELSE <<k>>

\* the style tags the host's lexer may report at the caret
Styles == {1, 7}

\* the user types a key: the host inserts its text at the caret and queues
\* the notifications for the registered callback
HostType(k) ==
    /\ pending = <<>>
    /\ ~typed
    /\ LET r == InsertAtCaret(text, caret, KeyText(k))
       IN  text' = r.text /\ caret' = r.caret
    /\ pending' = IF registered > 0 THEN KeyCodes(k) ELSE <<>>
    /\ typed' = TRUE
    /\ ev' = [kind |-> "type", key |-> k]
    /\ UNCHANGED <<filename, limit, bound, registered, runs>>

\* the host delivers the next notification to on_CHARADDED_insert; att is
\* what the handler did
Notify(style) ==
    /\ pending # <<>>
    /\ \E att \in {on_CHARADDED_insert(text, caret, filename, limit,
                                         Head(pending), style)} :
           /\ text' = IF att = <<>> THEN text ELSE att[Len(att)].text1
           /\ caret' = IF att = <<>> THEN caret ELSE att[Len(att)].caret1
           /\ ev' = [kind |-> "notify", ch |-> Head(pending),
                     text0 |-> text, caret0 |-> caret, attempts |-> att]
    /\ pending' = Tail(pending)
    /\ UNCHANGED <<filename, limit, typed, bound, registered, runs>>

\* the user runs the script auto_insert.py
Main ==
    /\ pending = <<>>
    /\ runs < MaxRuns
    /\ bound' = Toggled(bound)
    /\ registered' = IF bound' = "True" THEN registered + 1 ELSE 0
    /\ runs' = runs + 1
    /\ ev' = [kind |-> "main",
              ops |-> IF bound' = "True" THEN <<"callback">> ELSE <<"clearCallbacks">>]
    /\ UNCHANGED <<text, caret, filename, limit, pending, typed>>

Type == \E k \in Keys : HostType(k)

Deliver == \E style \in Styles : Notify(style)

Next == Type \/ Deliver

\* an editing session with the callback bound
Spec == Init /\ [][Next]_vars

NextScript == Main \/ Type \/ Deliver

\* a session in which the user also runs the registration script
SpecScript == InitScript /\ [][NextScript]_vars

(***************************************************************************)
(* What the properties read: the attempts of the last notification, and    *)
(* for an attempt the line it worked on, the block of lines it produced    *)
(* and the prefix the re-wrapper gives the lines of a block.  These are    *)
(* read off the buffers before and after, not off the handler's code.      *)
(***************************************************************************)
Attempts == IF ev.kind = "notify" THEN ev.attempts ELSE <<>>

Wraps == {k \in DOMAIN Attempts : Attempts[k].fn = "wrap"}

Rewraps == {k \in Wraps : Attempts[k].ops # <<>>}

Returns == {k \in DOMAIN Attempts : Attempts[k].fn = "return"}

TheMarker == IF filename = <<"b", ".", "c">> THEN <<"/", "/">> ELSE <<"#">>

Same(a) == a.ops = <<>> /\ a.text1 = a.text0 /\ a.caret1 = a.caret0

OldLine(a) == a.text0[a.caret0.line + 1]

Block(a) ==
    SubSeq(a.text1, a.caret0.line + 1,
           a.caret0.line + 1 + Len(a.text1) - Len(a.text0))

Lead(line) == SubSeq(line, 1, Len(line) - Len(lstrip(line)))

\* the first characters after the leading whitespace are the marker
IsCommentLine(line) ==
    /\ Len(line) >= Len(Lead(line)) + Len(TheMarker)
    /\ \A i \in 1..Len(TheMarker) : line[Len(Lead(line)) + i] = TheMarker[i]

HasContent(line) == \E i \in DOMAIN line : ~IsSpace(line[i])

PrefixOf(a) ==
    IF a.type = "comment" THEN Lead(OldLine(a)) \o TheMarker \o <<" ">>
    ELSE Lead(OldLine(a))

Rest(a, l) == SubSeq(l, Len(PrefixOf(a)) + 1, Len(l))

\* the words of the produced block, prefixes removed, in order
BlockWords(a) == join([j \in 1..Len(Block(a)) |-> split(Rest(a, Block(a)[j]))])

\* the tokens of the original line minus the leading comment marker
OldWords(a) ==
    LET t == split(OldLine(a))
    IN  IF a.type # "comment" THEN t
        ELSE IF t[1] = TheMarker THEN Tail(t)
        ELSE <<SubSeq(t[1], Len(TheMarker) + 1, Len(t[1]))>> \o Tail(t)

\* the line reads marker, whitespace, then a word that starts with the marker
\* again: "# #foo ...", "# # foo ..."
DoubleMarker(a) ==
    LET t == split(OldLine(a))
    IN  a.type = "comment" /\ Len(t) >= 2 /\ t[1] = TheMarker
        /\ startswith(t[2], TheMarker)

Long(a, w) == Len(PrefixOf(a)) + Len(w) > limit

(***************************************************************************)
(* C1.  Every line _on_CHARADDED_wrap rewrites keeps its words: each       *)
(* produced line starts with the synthesized prefix, and the produced      *)
(* lines, prefixes removed and split on whitespace, give exactly the       *)
(* original line's tokens minus the leading comment marker, in order.      *)
(* The code breaks it on "# #foo ..." and "# # foo ...".                   *)
(***************************************************************************)
C1_WordsPreserved ==
    \A k \in Rewraps :
        LET a == Attempts[k]
        IN  /\ \A j \in 1..Len(Block(a)) : startswith(Block(a)[j], PrefixOf(a))
            /\ BlockWords(a) = OldWords(a)

\* C1 outside its failing case: lines without a doubled marker keep their
\* words (not a claim of its own: it locates the bug)
C1_OutsideDoubleMarker ==
    \A k \in Rewraps :
        LET a == Attempts[k]
        IN  ~DoubleMarker(a) =>
              /\ \A j \in 1..Len(Block(a)) : startswith(Block(a)[j], PrefixOf(a))
              /\ BlockWords(a) = OldWords(a)

(***************************************************************************)
(* C2.  In every block written by _on_CHARADDED_wrap a produced line of    *)
(* two or more words is no longer than the column limit, only a line of    *)
(* exactly one word exceeds the limit, and a word starts a new line only   *)
(* when " " + word would have made the line strictly longer than the       *)
(* limit.                                                                  *)
(***************************************************************************)
C2_LinesWithinLimit ==
    \A k \in Rewraps :
        LET a == Attempts[k]
            b == Block(a)
        IN  \A j \in 1..Len(b) :
              LET w == split(Rest(a, b[j]))
              IN  /\ Len(w) >= 2 => Len(b[j]) <= limit
                  /\ Len(b[j]) > limit => Len(w) = 1
                  /\ j < Len(b) =>
                       Len(b[j]) + 1 + Len(FirstWord(Rest(a, b[j + 1]))) > limit

\* C2 outside the failing case of C1 (not a claim of its own)
C2_OutsideDoubleMarker ==
    \A k \in Rewraps :
        LET a == Attempts[k]
            b == Block(a)
        IN  ~DoubleMarker(a) =>
              \A j \in 1..Len(b) :
                LET w == split(Rest(a, b[j]))
                IN  /\ Len(w) >= 2 => Len(b[j]) <= limit
                    /\ Len(b[j]) > limit => Len(w) = 1
                    /\ j < Len(b) =>
                         Len(b[j]) + 1 + Len(FirstWord(Rest(a, b[j + 1]))) > limit

(***************************************************************************)
(* C3.  A word that with the line prefix is longer than the column limit   *)
(* is placed unmodified on a produced line of its own: every such word of  *)
(* the original line is a produced line by itself, and a produced line     *)
(* that holds such a word holds nothing else after the prefix.             *)
(***************************************************************************)
C3_LongWordAlone ==
    \A k \in Rewraps :
        LET a == Attempts[k]
            b == Block(a)
            old == OldWords(a)
        IN  /\ \A i \in DOMAIN old :
                  Long(a, old[i]) => \E j \in 1..Len(b) : b[j] = PrefixOf(a) \o old[i]
            /\ \A j \in 1..Len(b) :
                  LET w == split(Rest(a, b[j]))
                  IN  \A i \in DOMAIN w :
                        Long(a, w[i]) => b[j] = PrefixOf(a) \o w[i]

\* C3 outside the failing case of C1 (not a claim of its own)
C3_OutsideDoubleMarker ==
    \A k \in Rewraps :
        LET a == Attempts[k]
            b == Block(a)
            old == OldWords(a)
        IN  ~DoubleMarker(a) =>
              /\ \A i \in DOMAIN old :
                    Long(a, old[i]) =>
                      \E j \in 1..Len(b) : b[j] = PrefixOf(a) \o old[i]
              /\ \A j \in 1..Len(b) :
                    LET w == split(Rest(a, b[j]))
                    IN  \A i \in DOMAIN w :
                          Long(a, w[i]) => b[j] = PrefixOf(a) \o w[i]

(***************************************************************************)
(* The three lines the continuation inserter reads, off the buffer the     *)
(* attempt started from: the new line, the line above, the line two above  *)
(* (empty when the buffer has none).                                       *)
(***************************************************************************)
NewLine(a) == a.text0[a.caret0.line + 1]

Above(a) == IF a.caret0.line >= 1 THEN a.text0[a.caret0.line] ELSE <<>>

TwoAbove(a) == IF a.caret0.line >= 2 THEN a.text0[a.caret0.line - 1] ELSE <<>>

ShouldContinue(a) ==
    IsCommentLine(Above(a)) /\ (IsCommentLine(TwoAbove(a)) \/ HasContent(NewLine(a)))

C5_ContinuedLine ==
    \A k \in Returns :
        LET a == Attempts[k]
            made == Lead(Above(a)) \o TheMarker \o <<" ">> \o strip(NewLine(a))
        IN  a.ops # <<>> =>
              /\ a.text1 = [a.text0 EXCEPT ![a.caret0.line + 1] = made]
              /\ a.caret1 = [line |-> a.caret0.line, col |-> Len(made)]

\* an indented comment is continued with trailing text
C5_Witness ==
    \E k \in Returns :
        LET a == Attempts[k]
        IN  /\ a.ops # <<>>
            /\ Lead(Above(a)) # <<>>
            /\ HasContent(NewLine(a))
            /\ text[a.caret0.line + 1]
                  = Lead(Above(a)) \o TheMarker \o <<" ">> \o strip(NewLine(a))

Unregistered == { <<"n", ".", "m", "d">>, <<"R", "E", "A", "D", "M", "E">> }

(***************************************************************************)
(* C6.  While the active file's extension, lower-cased, is no key of the   *)
(* registry, on_CHARADDED_insert attempts nothing: no buffer write, no     *)
(* caret move, whatever the key and the buffer.  An extension that differs *)
(* from a registered one only in case is dispatched like it.               *)
(***************************************************************************)
C6_UnsupportedNoOp ==
    ev.kind = "notify" =>
        /\ filename \in Unregistered =>
              ev.attempts = <<>> /\ text = ev.text0 /\ caret = ev.caret0
        /\ filename \notin Unregistered => ev.attempts # <<>>

\* a newline notification in an unsupported file, on a buffer on which a
\* supported file would have continued the comment
C6_Witness ==
    /\ ev.kind = "notify"
    /\ ev.ch = 10
    /\ filename \in Unregistered
    /\ caret.line >= 1
    /\ IsCommentLine(text[caret.line])
    /\ HasContent(text[caret.line + 1])
    /\ ev.attempts = <<>>

\* the write sequence of lines 171-182
FullWrite(ops) ==
    \/ ops = <<"replaceLine", "addText", "lineEnd">>
    \/ ops = <<"replaceLine", "addText", "lineEnd",
               "charLeft", "charLeft", "charLeft">>

\* the words of the line once a bare leading marker is dropped
AfterBareMarker(a) ==
    LET t == split(OldLine(a))
    IN  IF a.type = "comment" /\ t # <<>> /\ t[1] = TheMarker THEN Tail(t) ELSE t

\* the cases in which a wrap attempt is to change nothing
NoOpCase(a) ==
    \/ a.caret0.col # Len(OldLine(a)) /\ ev.ch # 32
    \/ a.type = "docstring" /\ a.style # 7
    \/ a.type = "comment" /\ ~IsCommentLine(OldLine(a))
    \/ Len(rstrip(OldLine(a))) <= limit
    \/ Len(AfterBareMarker(a)) <= 1

(***************************************************************************)
(* C7.  A call of _on_CHARADDED_wrap makes the whole write sequence        *)
(* (replace line, add text, move caret) or leaves buffer and caret as they *)
(* were.  It leaves them when the caret is not at the end of the line and  *)
(* the key is no space, when the classifier of its type fails, when the    *)
(* line without trailing whitespace is no longer than the limit, and when  *)
(* at most one word is left after a bare leading marker is dropped.        *)
(***************************************************************************)
C7_AllOrNothing ==
    \A k \in Wraps :
        LET a == Attempts[k]
        IN  /\ Same(a) \/ (FullWrite(a.ops) /\ a.err = "")
            /\ NoOpCase(a) => Same(a)

\* one notification: the docstring attempt is turned down by the style tag
\* and changes nothing, the comment attempt writes the whole sequence
C7_Witness ==
    /\ Len(Attempts) = 2
    /\ Attempts[1].fn = "wrap" /\ Attempts[1].style = 1 /\ Same(Attempts[1])
    /\ Attempts[2].fn = "wrap" /\ FullWrite(Attempts[2].ops)
    /\ text # ev.text0

Blank(line) == \A i \in DOMAIN line : IsSpace(line[i])

(***************************************************************************)
(* C8.  On an empty or whitespace-only line _on_CHARADDED_wrap ends as a   *)
(* no-op without raising, in comment and in docstring mode: words[0][0] is *)
(* never evaluated on an empty word list.                                  *)
(***************************************************************************)
C8_BlankLineNoError ==
    \A k \in Wraps :
        LET a == Attempts[k]
        IN  Blank(OldLine(a)) => a.err = "" /\ Same(a)

\* a docstring attempt that the style tag lets through, on a blank line
\* longer than the limit
C8_Witness ==
    \E k \in Wraps :
        LET a == Attempts[k]
        IN  /\ a.type = "docstring" /\ a.style = 7
            /\ Blank(OldLine(a)) /\ Len(OldLine(a)) > limit
            /\ a.err = ""

PyFiles == { <<"a", ".", "p", "y">>, <<"A", ".", "P", "Y">> }

(***************************************************************************)
(* C9.  In a .py file a notification other than newline attempts the       *)
(* docstring wrap first and the comment wrap second, the second on the     *)
(* buffer the first left, and at most one of them writes: after a          *)
(* docstring rewrite the comment attempt changes nothing.  A newline       *)
(* notification runs the continuation inserter alone.                      *)
(***************************************************************************)
C9_OneWrapWrites ==
    ev.kind = "notify" /\ filename \in PyFiles =>
        IF ev.ch = 10
        THEN Len(ev.attempts) = 1 /\ ev.attempts[1].fn = "return"
        ELSE /\ Len(ev.attempts) = 2
             /\ ev.attempts[1].fn = "wrap" /\ ev.attempts[1].type = "docstring"
             /\ ev.attempts[2].fn = "wrap" /\ ev.attempts[2].type = "comment"
             /\ ev.attempts[2].text0 = ev.attempts[1].text1
             /\ ev.attempts[2].caret0 = ev.attempts[1].caret1
             /\ ~(ev.attempts[1].ops # <<>> /\ ev.attempts[2].ops # <<>>)
             /\ ev.attempts[1].ops # <<>> => Same(ev.attempts[2])

\* the docstring attempt rewrote the line, its last line starts with the
\* comment marker and the comment attempt, past its trigger, left it alone
C9_Witness ==
    /\ ev.kind = "notify" /\ filename \in PyFiles
    /\ Len(ev.attempts) = 2
    /\ ev.attempts[1].ops # <<>>
    /\ IsCommentLine(text[caret.line + 1])
    /\ (caret.col = Len(text[caret.line + 1]) \/ ev.ch = 32)
    /\ Same(ev.attempts[2])

(***************************************************************************)
(* C10.  The registration script is a strict toggle: after n runs of main  *)
(* the callback is bound iff n is odd, the first run binding it and every  *)
(* later run flipping the flag; each run does exactly one of bind and      *)
(* unbind.                                                                 *)
(***************************************************************************)
C10_StrictToggle ==
    /\ registered = (IF runs % 2 = 1 THEN 1 ELSE 0)
    /\ bound = (IF runs = 0 THEN "undefined"
                ELSE IF runs % 2 = 1 THEN "True" ELSE "False")
    /\ ev.kind = "main" =>
          ev.ops = (IF runs % 2 = 1 THEN <<"callback">> ELSE <<"clearCallbacks">>)
    /\ registered = 0 => pending = <<>>

\* bound, unbound and bound again
C10_Witness == runs = 3 /\ registered = 1 /\ ev.kind = "main"
====
